---- MODULE Spec2Model ----
(***************************************************************************)
(* A model of util.go of ytarchive: the fragment worker's continuation     *)
(* decision and failure handlers (ContinueFragmentDownload,                *)
(* HandleFragHttpError, HandleFragDownloadError, RefreshURL), the atom     *)
(* scanner and splicer (GetAtoms, RemoveSidx) and the parser of direct     *)
(* download links (ParseGvideoUrl).                                        *)
(*                                                                         *)
(* DownloadInfo, fragThreadState, FragMaxTries, AudioItag and the data     *)
(* type names are declared in other files of the repository; they are      *)
(* modelled from the interface util.go uses and from the specification's   *)
(* sections 3 and 6.                                                       *)
(***************************************************************************)
EXTENDS Integers, Sequences, FiniteSets, TLC

(***************************************************************************)
(* Bounds of the model.                                                    *)
(***************************************************************************)
\* The highest sequence number known to exist, when it is known and not 0.
EndSeq == 3
\* The largest fullRetries budget a worker starts a run with.
MaxFullRetries == 2
\* How far below zero fullRetries is followed.
MaxDebt == 1
\* The number of URL generations the collaborator can advertise.
MaxGen == 2
\* The most boxes a fragment is written from.
MaxBoxes == 3
\* The most payload bytes of a box.
MaxPayload == 1
\* The most parameters in the query of a URL.
MaxParams == 3

(***************************************************************************)
(* Program constants.                                                      *)
(***************************************************************************)
DtypeAudio == "audio"
DtypeVideo == "video"
DataTypes == {DtypeAudio, DtypeVideo}

\* The per-fragment retry ceiling.
FragMaxTries == 2

\* net/http status codes util.go names, and one it does not.
StatusForbidden == 403
StatusNotFound == 404
StatusCodes == {StatusForbidden, StatusNotFound, 500}

\* A URL is modelled by the generation of the collaborator's URLs it belongs
\* to; generation 0 is the empty string.
EmptyUrl == 0

(***************************************************************************)
(* State.                                                                  *)
(***************************************************************************)
VARIABLES
    di,       \* the shared DownloadInfo
    state,    \* state[w]: the fragThreadState of the worker of data type w
    workers,  \* the data types that have a worker in this run
    pc,       \* pc[w]: "idle", or "cmp" inside RefreshURL before line 504
    frame,    \* frame[w]: the locals of worker w's call in flight
    last,     \* the call that returned most recently
    run,      \* the run of failures being followed, or NoRun
    boxes,    \* the boxes the fragment handed to RemoveSidx was written from
    damage,   \* what happened to the fragment's bytes on the way
    data,     \* the caller's buffer: the bytes of the slice handed to RemoveSidx
    newData,  \* the slice RemoveSidx returned
    shared,   \* whether newData is a slice of the array of data
    atoms,    \* GetAtoms: the map from tag to Atom
    ofs,      \* GetAtoms: the scan offset
    apc,      \* where the call of RemoveSidx is: "idle", "scan", "splice",
              \* "done" or "panic"
    gvInput,  \* what the URL handed to ParseGvideoUrl was written from
    gvUrl,    \* ParseGvideoUrl: the argument gvUrl
    gvType,   \* ParseGvideoUrl: the argument dataType
    parsed,   \* what ParseGvideoUrl returned: the template and the itag
    upc       \* where the call of ParseGvideoUrl is: "idle" or "done"

workerVars == <<di, state, workers, pc, frame, last, run>>
atomVars == <<boxes, damage, data, newData, shared, atoms, ofs, apc>>
urlVars == <<gvInput, gvUrl, gvType, parsed, upc>>
vars == <<di, state, workers, pc, frame, last, run, boxes, damage, data, newData, shared,
          atoms, ofs, apc, gvInput, gvUrl, gvType, parsed, upc>>

(***************************************************************************)
(* DownloadInfo: the collaborator's interface (specification, section 6).  *)
(***************************************************************************)
IsLive(d) == d.Live
IsUnavailable(d) == d.Unavailable
IsGVideoDDL(d) == d.GVideoDDL
IsFinished(d, dataType) == d.Finished[dataType]
SetFinished(d, dataType) == [d EXCEPT !.Finished[dataType] = TRUE]
GetDownloadUrl(d, dataType) == d.UrlGen

\* The URL generations a refresh can leave: the link of direct-download-link
\* mode is fixed, a manifest's URLs are kept or rotated.
NextGens(d) ==
    IF d.GVideoDDL \/ d.UrlGen >= MaxGen THEN {d.UrlGen} ELSE {d.UrlGen, d.UrlGen + 1}

\* The refresh from the network: liveness, unavailability and the URLs are
\* whatever the network reports; the finished flags are the process's own.
GetVideoInfo(d) ==
    { [d EXCEPT !.Live = l, !.Unavailable = u, !.UrlGen = g] :
        l \in BOOLEAN, u \in BOOLEAN, g \in NextGens(d) }

(***************************************************************************)
(* The values a worker's state is drawn from.                              *)
(***************************************************************************)
FullRetriesFloor == 0 - MaxDebt
MaxSeqs == {-1, 0, EndSeq}
SeqNums == 0 .. (EndSeq + 1)
TriesValues == 0 .. (FragMaxTries + 1)

\* A worker's state as created: seqNum 0, tries 0, is403 false, maxSeq unknown.
NewState(dataType) ==
    [DataType |-> dataType, SeqNum |-> 0, Tries |-> 0,
     FullRetries |-> MaxFullRetries, MaxSeq |-> -1, Is403 |-> FALSE]

\* The states of a worker in the middle of a download.
\* The pairs of seqNum and maxSeq: every seqNum against a maxSeq of EndSeq, and
\* the first two against an unknown maxSeq and a maxSeq of 0.
SeqPairs ==
    { p \in SeqNums \X MaxSeqs : p[2] = EndSeq \/ p[1] <= 1 }

RunningStates(dataType) ==
    { [DataType |-> dataType, SeqNum |-> p[1], Tries |-> t,
       FullRetries |-> f, MaxSeq |-> p[2], Is403 |-> FALSE] :
        p \in SeqPairs, t \in TriesValues, f \in 0 .. MaxFullRetries }

(***************************************************************************)
(* The record of a call that has returned: the function, the worker, the   *)
(* status code handed to HandleFragHttpError, the arguments of RefreshURL  *)
(* when it was called (currentUrl, and newUrl as read at line 502), the    *)
(* value ContinueFragmentDownload returned, whether GetVideoInfo was       *)
(* called, and the line of util.go that ended the call's own branch.       *)
(***************************************************************************)
Call(op, w, statusCode, currentUrl, newUrl, ret, refreshed, line) ==
    [op |-> op, dt |-> w, statusCode |-> statusCode, currentUrl |-> currentUrl,
     newUrl |-> newUrl, ret |-> ret, refreshed |-> refreshed, line |-> line]

NoCall == Call("none", DtypeAudio, 0, EmptyUrl, EmptyUrl, FALSE, FALSE, 0)
NoFrame == [currentUrl |-> EmptyUrl, newUrl |-> EmptyUrl]

(***************************************************************************)
(* The run of failures being followed: the fullRetries the worker had when *)
(* the stream was found not live with tries at the ceiling, and the number *)
(* of times ContinueFragmentDownload has returned continue since.  The run *)
(* ends when the collaborator reports the stream live again.               *)
(***************************************************************************)
NoRun == [budget |-> -1, continues |-> 0]
StartRun(n) == [budget |-> n, continues |-> 0]

\* The run once a call has returned ret and left the collaborator as d.
Followed(r, d, ret) ==
    IF r = NoRun \/ IsLive(d) THEN NoRun
    ELSE [r EXCEPT !.continues = @ + (IF ret THEN 1 ELSE 0)]

(***************************************************************************)
(* ContinueFragmentDownload (util.go 513-551).  An outcome is the          *)
(* DownloadInfo and the worker state on return, the value returned,        *)
(* whether GetVideoInfo was called, and the line that ended the branch     *)
(* taken: 515, 534, 538, 541, 546, or 550 when tries is below the ceiling. *)
(***************************************************************************)
Outcome(d, s, ret, refreshed, line) ==
    [di |-> d, state |-> s, ret |-> ret, refreshed |-> refreshed, line |-> line]

NeverFinished(d, s) == FALSE

\* Line 514.
AlreadyFinished(d, s) == IsFinished(d, s.DataType)

AtCeilingOneEarly(s) == s.Tries >= FragMaxTries - 1

\* Line 518.
AtCeiling(s) == s.Tries >= FragMaxTries

\* Line 530.
AccessRevoked(d, s) == IsUnavailable(d) /\ s.Is403

BehindKnownMaxBy3(s) ==
    s.MaxSeq > -1 /\ s.SeqNum < (s.MaxSeq - 3) /\ s.FullRetries > 0

BehindKnownMaxAnyBudget(s) ==
    s.MaxSeq > -1 /\ s.SeqNum < (s.MaxSeq - 2)

\* Line 535.
BehindKnownMax(s) ==
    s.MaxSeq > -1 /\ s.SeqNum < (s.MaxSeq - 2) /\ s.FullRetries > 0

CeilingDecisionRetryFirst(d, s, refreshed) ==
    IF ~IsLive(d)
    THEN IF BehindKnownMax(s)
         THEN Outcome(d, s, TRUE, refreshed, 538)
         ELSE Outcome(SetFinished(d, s.DataType), s, FALSE, refreshed,
                      IF AccessRevoked(d, s) THEN 534 ELSE 541)
    ELSE Outcome(d, [s EXCEPT !.Tries = 0], TRUE, refreshed, 546)

CeilingDecisionGivesUp(d, s, refreshed) ==
    IF ~IsLive(d)
    THEN IF AccessRevoked(d, s)
         THEN Outcome(SetFinished(d, s.DataType), s, FALSE, refreshed, 534)
         ELSE IF BehindKnownMax(s)
              THEN Outcome(d, s, TRUE, refreshed, 538)
              ELSE Outcome(d, s, FALSE, refreshed, 541)
    ELSE Outcome(d, [s EXCEPT !.Tries = 0], TRUE, refreshed, 546)

CeilingDecisionWithinBudget(d, s, refreshed) ==
    IF ~IsLive(d) \/ s.FullRetries < 0
    THEN IF AccessRevoked(d, s)
         THEN Outcome(SetFinished(d, s.DataType), s, FALSE, refreshed, 534)
         ELSE IF BehindKnownMax(s)
              THEN Outcome(d, s, TRUE, refreshed, 538)
              ELSE Outcome(SetFinished(d, s.DataType), s, FALSE, refreshed, 541)
    ELSE Outcome(d, [s EXCEPT !.Tries = 0], TRUE, refreshed, 546)

\* Lines 529-547: the decision once fullRetries is decremented and the
\* defensive refresh is done.
CeilingDecision(d, s, refreshed) ==
    IF ~IsLive(d)
    THEN IF AccessRevoked(d, s)
         THEN Outcome(SetFinished(d, s.DataType), s, FALSE, refreshed, 534)
         ELSE IF BehindKnownMax(s)
              THEN Outcome(d, s, TRUE, refreshed, 538)
              ELSE Outcome(SetFinished(d, s.DataType), s, FALSE, refreshed, 541)
    ELSE Outcome(d, [s EXCEPT !.Tries = 0], TRUE, refreshed, 546)

\* Lines 513-551: the outcomes of one call, one for each answer of the network
\* when the refresh of line 526 is made.
ContinueOutcomes(d, s) ==
    IF AlreadyFinished(d, s)
    THEN {Outcome(d, s, FALSE, FALSE, 515)}
    ELSE IF AtCeiling(s)
         THEN LET s1 == [s EXCEPT !.FullRetries = @ - 1]
              IN  IF IsLive(d)
                  THEN {CeilingDecision(d1, s1, TRUE) : d1 \in GetVideoInfo(d)}
                  ELSE {CeilingDecision(d, s1, FALSE)}
         ELSE {Outcome(d, s, TRUE, FALSE, 550)}

ContinueFragmentDownload(w) ==
    /\ w \in workers
    /\ pc[w] = "idle"
    /\ (~IsFinished(di, w) /\ AtCeiling(state[w]))
          => state[w].FullRetries > FullRetriesFloor
    /\ \E o \in ContinueOutcomes(di, state[w]) :
          /\ di' = o.di
          /\ state' = [state EXCEPT ![w] = o.state]
          /\ last' = Call("ContinueFragmentDownload", w, 0, EmptyUrl, EmptyUrl,
                          o.ret, o.refreshed, o.line)
          /\ run' = Followed(run, o.di, o.ret)
    /\ UNCHANGED <<workers, pc, frame, atomVars, urlVars>>

(***************************************************************************)
(* RefreshURL (util.go 500-511), called at line 559.  Another worker can   *)
(* run between the read of the advertised URL (line 502) and the           *)
(* comparison and refresh (lines 504-508), so the call is two steps.       *)
(***************************************************************************)
ShouldRefreshIfChanged(currentUrl, newUrl) ==
    currentUrl = EmptyUrl \/ newUrl # currentUrl

\* Line 504.
ShouldRefresh(currentUrl, newUrl) ==
    currentUrl = EmptyUrl \/ newUrl = currentUrl

\* Lines 501-502: in direct-download-link mode the call returns, and with it
\* HandleFragHttpError; otherwise the advertised URL is read.
EnterRefreshURL(w, statusCode, currentUrl) ==
    IF IsGVideoDDL(di)
    THEN /\ last' = Call("HandleFragHttpError", w, statusCode, currentUrl, EmptyUrl,
                         FALSE, FALSE, 559)
         /\ UNCHANGED <<di, pc, frame>>
    ELSE /\ pc' = [pc EXCEPT ![w] = "cmp"]
         /\ frame' = [frame EXCEPT ![w] =
                        [currentUrl |-> currentUrl,
                         newUrl |-> GetDownloadUrl(di, w)]]
         /\ UNCHANGED <<di, last>>

\* Lines 504-509, and the return of HandleFragHttpError.
RefreshURL(w) ==
    /\ w \in workers
    /\ pc[w] = "cmp"
    /\ LET f == frame[w]
           refresh == ShouldRefresh(f.currentUrl, f.newUrl)
       IN  /\ di' \in (IF refresh THEN GetVideoInfo(di) ELSE {di})
           /\ last' = Call("HandleFragHttpError", w, StatusForbidden, f.currentUrl,
                           f.newUrl, FALSE, refresh, 559)
    /\ pc' = [pc EXCEPT ![w] = "idle"]
    /\ frame' = [frame EXCEPT ![w] = NoFrame]
    /\ run' = Followed(run, di', FALSE)
    /\ UNCHANGED <<state, workers, atomVars, urlVars>>

(***************************************************************************)
(* HandleFragHttpError (util.go 553-565).                                  *)
(***************************************************************************)
NotFoundNotLive(d, s) ==
    s.MaxSeq > -1 /\ ~IsLive(d)

\* Line 560, after the status code.
NotFoundAtEnd(d, s) ==
    s.MaxSeq > -1 /\ ~IsLive(d) /\ s.SeqNum > (s.MaxSeq - 2)

\* The URLs a worker can hold: none yet, or one the collaborator advertised.
HeldUrls == EmptyUrl .. MaxGen

HandleFragHttpError(w, statusCode, url) ==
    /\ w \in workers
    /\ pc[w] = "idle"
    /\ url <= di.UrlGen
    /\ IF statusCode = StatusForbidden
       THEN /\ state' = [state EXCEPT ![w].Is403 = TRUE]
            /\ EnterRefreshURL(w, statusCode, url)
       ELSE /\ IF statusCode = StatusNotFound /\ NotFoundAtEnd(di, state[w])
               THEN /\ di' = SetFinished(di, state[w].DataType)
                    /\ last' = Call("HandleFragHttpError", w, statusCode, EmptyUrl,
                                    EmptyUrl, FALSE, FALSE, 563)
               ELSE /\ di' = di
                    /\ last' = Call("HandleFragHttpError", w, statusCode, EmptyUrl,
                                    EmptyUrl, FALSE, FALSE, 565)
            /\ UNCHANGED <<state, pc, frame>>
    /\ UNCHANGED <<workers, run, atomVars, urlVars>>

(***************************************************************************)
(* HandleFragDownloadError (util.go 567-576).                              *)
(***************************************************************************)
\* Line 571.
ErrorAtEnd(d, s) ==
    s.MaxSeq > -1 /\ ~IsLive(d) /\ s.SeqNum >= (s.MaxSeq - 2)

DownloadErrorAssigns(d, s) ==
    [d EXCEPT !.Finished[s.DataType] = ErrorAtEnd(d, s)]

\* Lines 571-575: the DownloadInfo on return.
DownloadErrorInfo(d, s) ==
    IF ErrorAtEnd(d, s) THEN SetFinished(d, s.DataType) ELSE d

HandleFragDownloadError(w) ==
    /\ w \in workers
    /\ pc[w] = "idle"
    /\ di' = DownloadErrorInfo(di, state[w])
    /\ last' = Call("HandleFragDownloadError", w, 0, EmptyUrl, EmptyUrl, FALSE, FALSE,
                    IF ErrorAtEnd(di, state[w]) THEN 573 ELSE 576)
    /\ UNCHANGED <<state, workers, pc, frame, run, atomVars, urlVars>>

(***************************************************************************)
(* Strings are sequences of character codes, bytes are 0 .. 255.           *)
(***************************************************************************)
Space == 32
Pipe == 124
Newline == 10
Dot == 46
Plus == 43
Minus == 45

\* hextable of encoding/hex: "0123456789abcdef".
HexChar(n) == IF n < 10 THEN 48 + n ELSE 97 + (n - 10)

\* hex.Encode of one byte.
EncodeByte(b) == <<HexChar(b \div 16), HexChar(b % 16)>>

\* toChar of encoding/hex: the byte if it is printable, else a dot.
ToChar(b) == IF b < 32 \/ b > 126 THEN Dot ELSE b

Blanks(n) == [i \in 1 .. n |-> Space]

\* What the dumper writes after the i-th byte of a line (i from 0): a space,
\* two after the eighth byte, two and a bar after the sixteenth.
AfterByte(i) ==
    IF i = 7 THEN <<Space, Space>>
    ELSE IF i = 15 THEN <<Space, Space, Pipe>>
    ELSE <<Space>>

\* What the dumper's Close writes in place of the i-th byte of a short line.
InPlaceOfByte(i) ==
    IF i = 7 THEN Blanks(4)
    ELSE IF i = 15 THEN Blanks(4) \o <<Pipe>>
    ELSE Blanks(3)

RECURSIVE DumpBytes(_, _)
DumpBytes(bytes, i) ==
    IF i >= Len(bytes) THEN <<>>
    ELSE EncodeByte(bytes[i + 1]) \o AfterByte(i) \o DumpBytes(bytes, i + 1)

RECURSIVE DumpPadding(_)
DumpPadding(i) ==
    IF i >= 16 THEN <<>> ELSE InPlaceOfByte(i) \o DumpPadding(i + 1)

\* hex.EncodeToString: the bytes in hex and nothing else.
RECURSIVE EncodeToString(_)
EncodeToString(bytes) ==
    IF Len(bytes) = 0 THEN <<>>
    ELSE EncodeByte(Head(bytes)) \o EncodeToString(Tail(bytes))

\* hex.Dump (util.go 421) of at most 16 bytes, which is one line of
\* `hexdump -C`: the offset, the bytes in hex, the bytes as characters between
\* bars, and a newline.
Dump(bytes) ==
    IF Len(bytes) = 0 THEN <<>>
    ELSE [i \in 1 .. 8 |-> 48] \o <<Space, Space>>
         \o DumpBytes(bytes, 0)
         \o (IF Len(bytes) < 16 THEN DumpPadding(Len(bytes)) ELSE <<>>)
         \o [i \in 1 .. Len(bytes) |-> ToChar(bytes[i])]
         \o <<Pipe, Newline>>

\* The value of a digit of strconv.ParseUint, 36 for a character that is none.
DigitValue(c) ==
    IF c >= 48 /\ c <= 57 THEN c - 48
    ELSE IF c >= 97 /\ c <= 122 THEN c - 97 + 10
    ELSE IF c >= 65 /\ c <= 90 THEN c - 65 + 10
    ELSE 36

RECURSIVE DigitsValue(_, _, _)
DigitsValue(s, i, acc) ==
    IF i > Len(s) THEN acc
    ELSE DigitsValue(s, i + 1, acc * 16 + DigitValue(s[i]))

\* strconv.ParseInt(s, 16, 0) (util.go 422): an optional sign, then hex
\* digits only, or else a syntax error; the result is the error and the
\* value.  (The values of this model are far below the range error.)
ParseInt(s) ==
    LET signed == Len(s) > 0 /\ s[1] \in {Plus, Minus}
        digits == IF signed THEN SubSeq(s, 2, Len(s)) ELSE s
        syntax == Len(digits) = 0
                    \/ \E i \in 1 .. Len(digits) : DigitValue(digits[i]) >= 16
        value == IF syntax THEN 0
                 ELSE IF signed /\ s[1] = Minus THEN 0 - DigitsValue(digits, 1, 0)
                 ELSE DigitsValue(digits, 1, 0)
    IN  [err |-> syntax, value |-> value]

(***************************************************************************)
(* Fragments: boxes of a 4-byte big-endian length that counts the 8-byte   *)
(* header, a 4-byte tag and a payload (specification, section 6).          *)
(***************************************************************************)
TagFtyp == <<102, 116, 121, 112>>
TagSidx == <<115, 105, 100, 120>>
TagMoof == <<109, 111, 111, 102>>
TagMdat == <<109, 100, 97, 116>>
Tags == {TagFtyp, TagSidx, TagMoof, TagMdat}

BigEndian32(n) ==
    <<(n \div 16777216) % 256, (n \div 65536) % 256, (n \div 256) % 256, n % 256>>

\* The length the header at offset o declares: its first four bytes as a
\* big-endian number.
HeaderLength(bytes, o) ==
    ((bytes[o + 1] * 256 + bytes[o + 2]) * 256 + bytes[o + 3]) * 256 + bytes[o + 4]

\* A box is its tag and the size of its payload; the payload's bytes repeat
\* the first byte of the tag.
Boxes == [tag : Tags, size : 0 .. MaxPayload]
BoxLength(b) == 8 + b.size
BoxBytes(b) ==
    BigEndian32(BoxLength(b)) \o b.tag \o [i \in 1 .. b.size |-> b.tag[1]]

RECURSIVE Concat(_)
Concat(bs) ==
    IF Len(bs) = 0 THEN <<>> ELSE BoxBytes(Head(bs)) \o Concat(Tail(bs))

BoxSeqs == UNION { [1 .. n -> Boxes] : n \in 0 .. MaxBoxes }

\* What can happen to a fragment's bytes: nothing; the last three bytes are
\* cut off; a header of declared length 0 follows; a header that declares
\* more bytes than the buffer holds follows; the header of a sidx box follows
\* whose declared length is at most that of the buffer, but which the bytes
\* that remain do not hold.
Damages == {"none", "truncated", "zero", "oversize", "overrun"}

Damaged(bytes, dmg) ==
    IF dmg = "truncated" THEN SubSeq(bytes, 1, Len(bytes) - 3)
    ELSE IF dmg = "zero" THEN bytes \o BigEndian32(0) \o TagMdat
    ELSE IF dmg = "oversize" THEN bytes \o BigEndian32(Len(bytes) + 9) \o TagMdat
    ELSE IF dmg = "overrun" THEN bytes \o BigEndian32(Len(bytes) + 8) \o TagSidx
    ELSE bytes

\* The bytes of the fragment handed to RemoveSidx.
Fragment == Damaged(Concat(boxes), damage)

(***************************************************************************)
(* GetAtoms (util.go 412-434), one iteration of its loop a step, and       *)
(* RemoveSidx (util.go 436-449).                                           *)
(***************************************************************************)
NoAtomsFound == [t \in {} |-> 0]

\* Lines 436-437 and 413-414.
RemoveSidxCall ==
    /\ apc = "idle"
    /\ atoms' = NoAtomsFound
    /\ ofs' = 0
    /\ apc' = "scan"
    /\ UNCHANGED <<boxes, damage, data, newData, shared, workerVars, urlVars>>

DeclaredLengthAsWritten(bytes, o) ==
    [err |-> FALSE, value |-> HeaderLength(bytes, o)]

\* Lines 421-422: the declared length of the box at ofs.
DeclaredLength(bytes, o) == ParseInt(Dump(SubSeq(bytes, o + 1, o + 4)))

\* Lines 416-431.
GetAtoms ==
    /\ apc = "scan"
    /\ IF ofs + 8 > Len(data)
       THEN /\ apc' = "splice"
            /\ UNCHANGED <<atoms, ofs>>
       ELSE LET aLen == DeclaredLength(data, ofs)
            IN  IF aLen.err \/ aLen.value > Len(data)
                THEN /\ apc' = "splice"
                     /\ UNCHANGED <<atoms, ofs>>
                ELSE LET aName == SubSeq(data, ofs + 5, ofs + 8)
                     IN  /\ atoms' = [t \in DOMAIN atoms \cup {aName} |->
                                        IF t = aName
                                        THEN [Offset |-> ofs, Length |-> aLen.value]
                                        ELSE atoms[t]]
                         /\ ofs' = ofs + aLen.value
                         /\ apc' = "scan"
    /\ UNCHANGED <<boxes, damage, data, newData, shared, workerVars, urlVars>>

\* Lines 438-448.  Line 441 returns the slice it was handed.  The append of
\* line 446 has room in the array of data and writes into it: the caller's
\* buffer then holds the new bytes, followed by the old ones beyond them, and
\* the result is a slice of the same array.  A slice bound beyond the buffer
\* panics.
RemoveSidx ==
    /\ apc = "splice"
    /\ IF TagSidx \notin DOMAIN atoms
       THEN /\ newData' = data
            /\ shared' = TRUE
            /\ apc' = "done"
            /\ UNCHANGED data
       ELSE LET sidx == atoms[TagSidx]
                rlen == sidx.Offset + sidx.Length
            IN  IF rlen > Len(data) \/ rlen < sidx.Offset
                THEN /\ apc' = "panic"
                     /\ UNCHANGED <<data, newData, shared>>
                ELSE LET spliced == SubSeq(data, 1, sidx.Offset)
                                      \o SubSeq(data, rlen + 1, Len(data))
                     IN  /\ newData' = spliced
                         /\ data' = spliced \o SubSeq(data, Len(spliced) + 1, Len(data))
                         /\ shared' = TRUE
                         /\ apc' = "done"
    /\ UNCHANGED <<boxes, damage, atoms, ofs, workerVars, urlVars>>

(***************************************************************************)
(* ParseGvideoUrl (util.go 463-498).  A URL is a string: a sequence of     *)
(* character codes.  The URLs of this model hold no percent escape, no     *)
(* plus, no semicolon, no user information and no IPv6 literal.            *)
(***************************************************************************)
Min(S) == CHOOSE x \in S : \A y \in S : x <= y

\* strings.Index: the offset of the first occurrence of sub in s, or -1.
Index(s, sub) ==
    LET at == { i \in 0 .. (Len(s) - Len(sub)) : SubSeq(s, i + 1, i + Len(sub)) = sub }
    IN  IF at = {} THEN -1 ELSE Min(at)

\* strings.Cut.
Cut(s, sep) ==
    LET i == Index(s, sep)
    IN  IF i < 0 THEN [before |-> s, after |-> <<>>, found |-> FALSE]
        ELSE [before |-> SubSeq(s, 1, i),
              after |-> SubSeq(s, i + Len(sep) + 1, Len(s)),
              found |-> TRUE]

\* strings.HasSuffix, strings.HasPrefix and strings.ToLower.
HasSuffix(s, suffix) ==
    Len(s) >= Len(suffix) /\ SubSeq(s, Len(s) - Len(suffix) + 1, Len(s)) = suffix
HasPrefix(s, prefix) ==
    Len(s) >= Len(prefix) /\ SubSeq(s, 1, Len(prefix)) = prefix
ToLower(s) ==
    [i \in 1 .. Len(s) |-> IF s[i] >= 65 /\ s[i] <= 90 THEN s[i] + 32 ELSE s[i]]

Colon == <<58>>
Hash == <<35>>
Question == <<63>>
Slash == <<47>>
Slashes == <<47, 47>>
Ampersand == <<38>>
Equals == <<61>>

\* stringContainsCTLByte of net/url.
ContainsCTLByte(s) == \E i \in 1 .. Len(s) : s[i] < 32 \/ s[i] = 127

\* url.Parse (util.go 465): the fragment is cut off at the first #, a control
\* character is an error, the scheme ends at the first colon, the query
\* begins after the first question mark, and the host lies between // and the
\* next slash.  The result is the error, Host and RawQuery.
Parse(rawURL) ==
    LET u == Cut(rawURL, Hash).before
        rest == Cut(u, Colon).after
        q == Cut(rest, Question)
        authority == IF HasPrefix(q.before, Slashes)
                     THEN Cut(SubSeq(q.before, 3, Len(q.before)), Slash).before
                     ELSE <<>>
    IN  [err |-> ContainsCTLByte(u), Host |-> authority, RawQuery |-> q.after]

\* URL.Hostname (util.go 471): the host without its port.
Hostname(host) == Cut(host, Colon).before

\* url.ParseQuery, behind URL.Query (util.go 474 and 482): the pairs of key
\* and value of the query, in their order; a pair of no text is skipped.
RECURSIVE ParseQuery(_)
ParseQuery(query) ==
    IF Len(query) = 0 THEN <<>>
    ELSE LET c == Cut(query, Ampersand)
             kv == Cut(c.before, Equals)
         IN  (IF Len(c.before) = 0 THEN <<>>
              ELSE <<[key |-> kv.before, value |-> kv.after]>>)
             \o ParseQuery(c.after)

\* Values.Get: the first value of the key, or the empty string.
Get(values, key) ==
    LET at == { i \in 1 .. Len(values) : values[i].key = key }
    IN  IF at = {} THEN <<>> ELSE values[Min(at)].value

\* The lookup values[key] of line 482.
HasKey(values, key) == \E i \in 1 .. Len(values) : values[i].key = key

RECURSIVE DecimalValue(_, _, _)
DecimalValue(s, i, acc) ==
    IF i > Len(s) THEN acc ELSE DecimalValue(s, i + 1, acc * 10 + (s[i] - 48))

\* strconv.Atoi (util.go 474): an optional sign, then decimal digits only, or
\* else an error; the result is the error and the value.
Atoi(s) ==
    LET signed == Len(s) > 0 /\ s[1] \in {Plus, Minus}
        digits == IF signed THEN SubSeq(s, 2, Len(s)) ELSE s
        syntax == Len(digits) = 0
                    \/ \E i \in 1 .. Len(digits) : digits[i] < 48 \/ digits[i] > 57
        value == IF syntax THEN 0
                 ELSE IF signed /\ s[1] = Minus THEN 0 - DecimalValue(digits, 1, 0)
                 ELSE DecimalValue(digits, 1, 0)
    IN  [err |-> syntax, value |-> value]

\* The reserved audio itag.
AudioItag == 140

KeyItag == <<105, 116, 97, 103>>  \* "itag"
KeyNoclen == <<110, 111, 99, 108, 101, 110>>  \* "noclen"
HostSuffix == <<46, 103, 111, 111, 103, 108, 101, 118, 105, 100, 101, 111, 46, 99, 111, 109>>  \* ".googlevideo.com"
SqMarker == <<38, 115, 113, 61>>  \* "&sq="
SqPlaceholder == <<38, 115, 113, 61, 37, 115>>  \* "&sq=%s"

\* What ParseGvideoUrl returns.
Parsed(newUrl, itag) == [newUrl |-> newUrl, itag |-> itag]
NotParsed == Parsed(<<>>, 0)

AnyHost(lowerHost) == TRUE

\* Line 480.
StreamingHost(lowerHost) == HasSuffix(lowerHost, HostSuffix)

\* Lines 485 and 488.
ItagMatches(dataType, itag) ==
    /\ ~(dataType = DtypeAudio /\ itag # AudioItag)
    /\ ~(dataType = DtypeVideo /\ itag = AudioItag)

\* Lines 463-498.
ParseGvideoUrlResult(url, dataType) ==
    LET parsedUrl == Parse(url)
        lowerHost == ToLower(Hostname(parsedUrl.Host))
        sqIndex == Index(url, SqMarker)
        values == ParseQuery(parsedUrl.RawQuery)
        itag == Atoi(Get(values, KeyItag))
    IN  IF parsedUrl.err THEN NotParsed
        ELSE IF itag.err THEN NotParsed
        ELSE IF ~StreamingHost(lowerHost) THEN NotParsed
        ELSE IF ~HasKey(values, KeyNoclen) THEN NotParsed
        ELSE IF ~ItagMatches(dataType, itag.value) THEN NotParsed
        ELSE IF sqIndex < 0 THEN NotParsed
        ELSE Parsed(SubSeq(url, 1, sqIndex) \o SqPlaceholder, itag.value)

ParseGvideoUrl ==
    /\ upc = "idle"
    /\ parsed' = ParseGvideoUrlResult(gvUrl, gvType)
    /\ upc' = "done"
    /\ UNCHANGED <<gvInput, gvUrl, gvType, workerVars, atomVars>>

\* The URLs handed to ParseGvideoUrl are written from a host, a path, the
\* parameters of the query and what follows the query.  Beside its text, each
\* part says what it is: whether the host is one of the streaming provider's,
\* whether the path is free of control characters, the key of a parameter and
\* the integer its value stands for (-1 when it stands for none), and whether
\* what follows the query holds the marker "&sq=".
UrlScheme == <<104, 116, 116, 112, 115, 58>>  \* "https:"
UrlHosts ==
    { [text |-> <<114, 49, 46, 103, 111, 111, 103, 108, 101, 118, 105, 100, 101, 111, 46, 99, 111, 109>>, streaming |-> TRUE],     \* "r1.googlevideo.com"
      [text |-> <<82, 49, 46, 71, 111, 111, 103, 108, 101, 86, 105, 100, 101, 111, 46, 67, 79, 77, 58, 52, 52, 51>>, streaming |-> TRUE],     \* "R1.GoogleVideo.COM:443"
      [text |-> <<103, 111, 111, 103, 108, 101, 118, 105, 100, 101, 111, 46, 99, 111, 109>>, streaming |-> FALSE],    \* "googlevideo.com"
      [text |-> <<101, 120, 97, 109, 112, 108, 101, 46, 99, 111, 109>>, streaming |-> FALSE] }   \* "example.com"
UrlPaths ==
    { [text |-> <<47, 118, 105, 100, 101, 111, 112, 108, 97, 121, 98, 97, 99, 107>>, wellFormed |-> TRUE],    \* "/videoplayback"
      [text |-> <<47, 118, 127>>, wellFormed |-> FALSE] }   \* "/v" and a DEL
UrlParams ==
    { [text |-> <<105, 116, 97, 103, 61, 49, 52, 48>>, key |-> "itag", int |-> 140],     \* "itag=140"
      [text |-> <<105, 116, 97, 103, 61, 49, 51, 55>>, key |-> "itag", int |-> 137],     \* "itag=137"
      [text |-> <<105, 116, 97, 103, 61, 104, 100>>, key |-> "itag", int |-> -1],      \* "itag=hd"
      [text |-> <<110, 111, 99, 108, 101, 110, 61, 49>>, key |-> "noclen", int |-> 1],     \* "noclen=1"
      [text |-> <<110, 111, 99, 108, 101, 110>>, key |-> "noclen", int |-> -1],    \* "noclen"
      [text |-> <<115, 113, 61, 52, 50>>, key |-> "sq", int |-> 42] }       \* "sq=42"
UrlTails ==
    { [text |-> <<>>, marker |-> FALSE],
      [text |-> <<35, 116, 38, 115, 113, 61, 57>>, marker |-> TRUE] }       \* "#t&sq=9"

UrlInputs ==
    [host : UrlHosts, path : UrlPaths,
     params : UNION { [1 .. n -> UrlParams] : n \in 0 .. MaxParams },
     tail : UrlTails]

RECURSIVE Join(_, _)
Join(ps, sep) ==
    IF Len(ps) = 0 THEN <<>>
    ELSE IF Len(ps) = 1 THEN ps[1].text
    ELSE ps[1].text \o sep \o Join(Tail(ps), sep)

\* The text of the URL up to the end of its first n parameters.
UrlUpTo(in, n) ==
    UrlScheme \o Slashes \o in.host.text \o in.path.text
    \o (IF n = 0 THEN <<>> ELSE Question \o Join(SubSeq(in.params, 1, n), Ampersand))

UrlText(in) == UrlUpTo(in, Len(in.params)) \o in.tail.text

\* ParseGvideoUrl is not being called.
NoUrl ==
    /\ gvInput = [host |-> CHOOSE h \in UrlHosts : h.streaming /\ Len(h.text) = 18,
                  path |-> CHOOSE q \in UrlPaths : q.wellFormed,
                  params |-> <<>>,
                  tail |-> CHOOSE t \in UrlTails : ~t.marker]
    /\ gvUrl = <<>>
    /\ gvType = DtypeAudio
    /\ parsed = NotParsed
    /\ upc = "idle"

\* No fragment is being spliced.
NoAtoms ==
    /\ boxes = <<>>
    /\ damage = "none"
    /\ data = <<>>
    /\ newData = <<>>
    /\ shared = FALSE
    /\ atoms = NoAtomsFound
    /\ ofs = 0
    /\ apc = "idle"

\* No worker runs.
NoWorkers ==
    /\ di = [Live |-> TRUE, Unavailable |-> FALSE, GVideoDDL |-> FALSE,
             Finished |-> [x \in DataTypes |-> FALSE], UrlGen |-> 1]
    /\ state = [x \in DataTypes |-> NewState(x)]
    /\ workers = {}
    /\ pc = [w \in DataTypes |-> "idle"]
    /\ frame = [w \in DataTypes |-> NoFrame]
    /\ last = NoCall
    /\ run = NoRun

\* A fragment has been downloaded and is about to be handed to RemoveSidx.
InitAtoms ==
    /\ boxes \in BoxSeqs
    /\ damage \in Damages
    /\ data = Fragment
    /\ newData = <<>>
    /\ shared = FALSE
    /\ atoms = NoAtomsFound
    /\ ofs = 0
    /\ apc = "idle"
    /\ NoWorkers
    /\ NoUrl

NextAtoms ==
    \/ RemoveSidxCall
    \/ GetAtoms
    \/ RemoveSidx

SpecAtoms == InitAtoms /\ [][NextAtoms]_vars

\* The loop of GetAtoms runs on, and RemoveSidx goes on once it has its atoms.
SpecScan == InitAtoms /\ [][NextAtoms]_vars /\ WF_vars(GetAtoms) /\ WF_vars(RemoveSidx)

\* A URL has been given on the command line for one of the data types.
InitUrl ==
    /\ gvInput \in UrlInputs
    /\ gvUrl = UrlText(gvInput)
    /\ gvType \in DataTypes
    /\ parsed = NotParsed
    /\ upc = "idle"
    /\ NoWorkers
    /\ NoAtoms

NextUrl == ParseGvideoUrl

SpecUrl == InitUrl /\ [][NextUrl]_vars

(***************************************************************************)
(* The runs of the workers.                                                *)
(***************************************************************************)
\* The collaborator when the download starts.
StartInfos ==
    { [Live |-> l, Unavailable |-> u, GVideoDDL |-> g,
       Finished |-> [x \in DataTypes |-> FALSE], UrlGen |-> 1] :
        l \in BOOLEAN, u \in BOOLEAN, g \in BOOLEAN }

\* The states of a worker that has reached the last known fragment with its
\* tries used up.
EndStates(dataType) ==
    { s \in RunningStates(dataType) :
        s.SeqNum = EndSeq /\ s.MaxSeq = EndSeq /\ s.Tries = FragMaxTries
        /\ s.FullRetries = 1 }

\* One worker alone (the other not started, or not wanted), anywhere in its
\* download.
InitSolo ==
    \E w \in DataTypes :
        /\ workers = {w}
        /\ state \in { [x \in DataTypes |-> IF x = w THEN s ELSE NewState(x)] :
                         s \in RunningStates(w) }

\* Both workers, each at the end of the stream.
InitDuo ==
    /\ workers = DataTypes
    /\ state \in { [x \in DataTypes |-> IF x = DtypeAudio THEN a ELSE v] :
                     a \in EndStates(DtypeAudio), v \in EndStates(DtypeVideo) }

Init ==
    /\ di \in StartInfos
    /\ pc = [w \in DataTypes |-> "idle"]
    /\ frame = [w \in DataTypes |-> NoFrame]
    /\ last = NoCall
    /\ run = NoRun
    /\ (InitSolo \/ InitDuo)
    /\ NoAtoms
    /\ NoUrl

Next ==
    \E w \in DataTypes :
        \/ ContinueFragmentDownload(w)
        \/ \E statusCode \in StatusCodes, url \in HeldUrls :
              HandleFragHttpError(w, statusCode, url)
        \/ RefreshURL(w)
        \/ HandleFragDownloadError(w)

Spec == Init /\ [][Next]_vars

(***************************************************************************)
(* A run of failures: the stream has ended, the worker's tries are at the  *)
(* ceiling, and every fetch of the current seqNum fails.  Between the      *)
(* calls the worker's loop only increases tries.                           *)
(***************************************************************************)
FetchFails(w) ==
    /\ w \in workers
    /\ pc[w] = "idle"
    /\ state[w].Tries < FragMaxTries + 1
    /\ state' = [state EXCEPT ![w].Tries = @ + 1]
    /\ UNCHANGED <<di, workers, pc, frame, last, run, atomVars, urlVars>>

InitDrain ==
    /\ di \in { d \in StartInfos : ~d.Live }
    /\ pc = [w \in DataTypes |-> "idle"]
    /\ frame = [w \in DataTypes |-> NoFrame]
    /\ last = NoCall
    /\ InitSolo
    /\ \A w \in workers : state[w].Tries = FragMaxTries
    /\ run = StartRun(state[CHOOSE w \in workers : TRUE].FullRetries)
    /\ NoAtoms
    /\ NoUrl

\* The run is followed until the stream is reported live again.
NextDrain ==
    \E w \in DataTypes :
        \/ run # NoRun /\ FetchFails(w)
        \/ run # NoRun /\ ContinueFragmentDownload(w)
        \/ \E statusCode \in StatusCodes, url \in HeldUrls :
              run # NoRun /\ HandleFragHttpError(w, statusCode, url)
        \/ run # NoRun /\ RefreshURL(w)
        \/ run # NoRun /\ HandleFragDownloadError(w)

\* The worker's loop calls ContinueFragmentDownload after every failure it
\* has handled, and a call of RefreshURL returns.
SpecDrain ==
    /\ InitDrain
    /\ [][NextDrain]_vars
    /\ \A w \in DataTypes :
          SF_vars(ContinueFragmentDownload(w)) /\ WF_vars(RefreshURL(w))

(***************************************************************************)
(* Properties of the worker's calls.  A step of an action relates the      *)
(* state the call is made in (unprimed) to the state it returns in         *)
(* (primed).                                                               *)
(***************************************************************************)
\* "seqNum is within 2 of a known maxSeq and the stream is not live", as the
\* specification's sections 4.1 and 8 state it: seqNum >= maxSeq - 2.
WithinTwoOfEnd(w) ==
    state[w].MaxSeq > -1 /\ ~di.Live /\ state[w].SeqNum >= state[w].MaxSeq - 2

\* C1: a call to ContinueFragmentDownload made when the worker's data type is
\* already marked finished returns stop (false), whatever the worker state and
\* the collaborator's status.
C1_FinishedStops ==
    [][\A w \in DataTypes :
          (ContinueFragmentDownload(w) /\ di.Finished[w]) => last'.ret = FALSE]_vars

C1_Witness ==
    /\ last.op = "ContinueFragmentDownload"
    /\ last.line = 515
    /\ last.ret = FALSE
    /\ di.Finished[last.dt]
    /\ state[last.dt].Tries < FragMaxTries

\* C2: a call with the data type not finished, tries at or above the ceiling,
\* the stream not live and the video unavailable (as lines 529 and 530 read
\* them: the status on entry when the stream is not live on entry) and is403
\* true marks the data type finished and returns stop, whatever seqNum, maxSeq
\* and fullRetries are.
C2_RevokedStops ==
    [][\A w \in DataTypes :
          (/\ ContinueFragmentDownload(w)
           /\ ~di.Finished[w]
           /\ state[w].Tries >= FragMaxTries
           /\ ~di'.Live
           /\ di'.Unavailable
           /\ state[w].Is403)
          => (di'.Finished[w] /\ last'.ret = FALSE)]_vars

\* The revoked-access stop, taken where the worker trails the known maximum
\* with budget left, so that the next branch would have let it retry.
C2_Witness ==
    /\ last.op = "ContinueFragmentDownload"
    /\ last.line = 534
    /\ last.ret = FALSE
    /\ di.Finished[last.dt]
    /\ ~di.Live /\ di.Unavailable
    /\ state[last.dt].Is403
    /\ state[last.dt].MaxSeq > -1
    /\ state[last.dt].SeqNum <= state[last.dt].MaxSeq - 3
    /\ state[last.dt].FullRetries > 0

\* C3, as claimed: a call with the data type not finished, tries at the
\* ceiling, the stream not live, maxSeq known, seqNum <= maxSeq - 3 and
\* fullRetries > 0 on entry returns continue and does not mark the data type
\* finished.
C3_RetryWithBudgetOnEntry ==
    [][\A w \in DataTypes :
          (/\ ContinueFragmentDownload(w)
           /\ ~di.Finished[w]
           /\ state[w].Tries >= FragMaxTries
           /\ ~di.Live
           /\ state[w].MaxSeq > -1
           /\ state[w].SeqNum <= state[w].MaxSeq - 3
           /\ state[w].FullRetries > 0)
          => (last'.ret = TRUE /\ ~di'.Finished[w])]_vars

\* C3, amended: the same call returns continue and does not mark the data
\* type finished when fullRetries > 1 on entry (it is decremented before it is
\* tested) and the video is not both unavailable and is403.
C3_RetryWithBudgetLeft ==
    [][\A w \in DataTypes :
          (/\ ContinueFragmentDownload(w)
           /\ ~di.Finished[w]
           /\ state[w].Tries >= FragMaxTries
           /\ ~di.Live
           /\ state[w].MaxSeq > -1
           /\ state[w].SeqNum <= state[w].MaxSeq - 3
           /\ state[w].FullRetries > 1
           /\ ~(di.Unavailable /\ state[w].Is403))
          => (/\ last'.ret = TRUE
              /\ ~di'.Finished[w]
              /\ state'[w].FullRetries = state[w].FullRetries - 1)]_vars

C3_Witness ==
    /\ last.op = "ContinueFragmentDownload"
    /\ last.line = 538
    /\ last.ret = TRUE
    /\ ~di.Finished[last.dt]
    /\ ~di.Live
    /\ state[last.dt].Tries >= FragMaxTries
    /\ state[last.dt].SeqNum = state[last.dt].MaxSeq - 3
    /\ state[last.dt].FullRetries >= 1

\* C4: HandleFragHttpError called with status 404 while maxSeq is known, the
\* stream is not live and seqNum >= maxSeq - 2 leaves the data type marked
\* finished.
C4_NotFoundWithinTwoFinishes ==
    [][\A w \in DataTypes, u \in HeldUrls :
          (HandleFragHttpError(w, StatusNotFound, u) /\ WithinTwoOfEnd(w))
          => di'.Finished[w]]_vars

\* C5: HandleFragHttpError changes nothing and requests no refresh when the
\* status code is neither 403 nor a 404 within two of the end of the stream.
C5_OtherCodesChangeNothing ==
    [][\A w \in DataTypes, sc \in StatusCodes, u \in HeldUrls :
          (/\ HandleFragHttpError(w, sc, u)
           /\ sc # StatusForbidden
           /\ ~(sc = StatusNotFound /\ WithinTwoOfEnd(w)))
          => (/\ UNCHANGED <<di, state, pc, frame>>
              /\ last'.refreshed = FALSE
              /\ last'.statusCode = sc)]_vars

\* A 404 more than two behind the known maximum, the stream not live, has
\* returned with the data type unfinished.
C5_Witness ==
    /\ last.op = "HandleFragHttpError"
    /\ last.statusCode = StatusNotFound
    /\ last.line = 565
    /\ ~di.Live
    /\ state[last.dt].MaxSeq = EndSeq
    /\ state[last.dt].SeqNum < state[last.dt].MaxSeq - 2
    /\ ~di.Finished[last.dt]

\* The part of C6 about HandleFragDownloadError alone.
DownloadErrorFinishesWithinTwo ==
    [][\A w \in DataTypes :
          HandleFragDownloadError(w)
          => (/\ di' = IF WithinTwoOfEnd(w) THEN SetFinished(di, w) ELSE di
              /\ UNCHANGED <<state, pc, frame>>)]_vars

\* C6: HandleFragDownloadError marks the data type finished exactly when the
\* stream is not live, maxSeq is known and seqNum >= maxSeq - 2, and changes
\* nothing otherwise; and the 404 case finishes under the same condition.
C6_SameConditionAs404 ==
    [][\A w \in DataTypes :
          /\ HandleFragDownloadError(w)
             => (/\ di' = IF WithinTwoOfEnd(w) THEN SetFinished(di, w) ELSE di
                 /\ UNCHANGED <<state, pc, frame>>)
          /\ \A u \in HeldUrls :
                HandleFragHttpError(w, StatusNotFound, u)
                => di' = IF WithinTwoOfEnd(w) THEN SetFinished(di, w) ELSE di]_vars

\* C7: RefreshURL calls GetVideoInfo if and only if the collaborator is in
\* manifest mode and the worker's URL is empty or equals the URL the
\* collaborator advertises for the data type (read at line 502); in
\* direct-download-link mode it returns without a refresh.
C7_RefreshIff ==
    [][\A w \in DataTypes :
          /\ \A u \in HeldUrls :
                HandleFragHttpError(w, StatusForbidden, u)
                => IF di.GVideoDDL
                   THEN /\ di' = di
                        /\ pc'[w] = "idle"
                        /\ last'.refreshed = FALSE
                   ELSE /\ di' = di
                        /\ pc'[w] = "cmp"
                        /\ frame'[w] = [currentUrl |-> u, newUrl |-> di.UrlGen]
          /\ RefreshURL(w)
             => (/\ ~di.GVideoDDL
                 /\ last'.refreshed =
                        (frame[w].currentUrl = EmptyUrl
                            \/ frame[w].newUrl = frame[w].currentUrl)
                 /\ last'.refreshed => di' \in GetVideoInfo(di)
                 /\ ~last'.refreshed => di' = di)]_vars

\* A refresh made because the advertised URL is the one the worker used.
C7_Witness ==
    /\ last.op = "HandleFragHttpError"
    /\ last.statusCode = StatusForbidden
    /\ last.refreshed
    /\ ~di.GVideoDDL
    /\ last.currentUrl # EmptyUrl
    /\ last.newUrl = last.currentUrl

\* C8: once finished is true for a data type it is true in every later
\* state, over every interleaving of the workers' calls.
C8_FinishedMonotonic ==
    [][\A d \in DataTypes : di.Finished[d] => di'.Finished[d]]_vars

\* Both workers run, both data types are finished, and the worker that
\* finished first has been overtaken by a call of the other.
C8_Witness ==
    /\ workers = DataTypes
    /\ \A d \in DataTypes : di.Finished[d]
    /\ last.op # "none"

\* C9: when a failure handler has returned for a worker, the worker's is403
\* flag is true if and only if that failure was an HTTP 403.
C9_Is403MostRecent ==
    (last.op \in {"HandleFragHttpError", "HandleFragDownloadError"}
        /\ pc[last.dt] = "idle")
    => (state[last.dt].Is403 <=> last.statusCode = StatusForbidden)

\* C13: a call with the data type not finished and tries at or above the
\* ceiling, the stream reported live after the refresh of line 526, returns
\* continue, resets tries to 0 and does not mark the data type finished,
\* whatever fullRetries, is403, unavailability, seqNum and maxSeq are; and no
\* call made while the stream is live and stays live marks a data type
\* finished.
C13_LiveContinues ==
    [][/\ \A w \in DataTypes :
             (/\ ContinueFragmentDownload(w)
              /\ ~di.Finished[w]
              /\ state[w].Tries >= FragMaxTries
              /\ di'.Live)
             => (/\ last'.ret = TRUE
                 /\ state'[w].Tries = 0
                 /\ ~di'.Finished[w])
       /\ (di.Live /\ di'.Live) => di'.Finished = di.Finished]_vars

\* The live branch, taken by a worker with its budget overdrawn, a 403 behind
\* it, the video unavailable and the last known fragment reached.
C13_Witness ==
    /\ last.op = "ContinueFragmentDownload"
    /\ last.line = 546
    /\ last.ret = TRUE
    /\ last.refreshed
    /\ di.Live /\ di.Unavailable
    /\ ~di.Finished[last.dt]
    /\ state[last.dt].Tries = 0
    /\ state[last.dt].FullRetries < 0
    /\ state[last.dt].Is403
    /\ state[last.dt].SeqNum = state[last.dt].MaxSeq

\* C14: a call with the data type not finished and tries below the ceiling
\* returns continue and changes nothing: tries, fullRetries, seqNum, maxSeq,
\* is403 and the finished flags keep their values and no refresh is
\* requested.
C14_BelowCeilingChangesNothing ==
    [][\A w \in DataTypes :
          (/\ ContinueFragmentDownload(w)
           /\ ~di.Finished[w]
           /\ state[w].Tries < FragMaxTries)
          => (/\ last'.ret = TRUE
              /\ last'.refreshed = FALSE
              /\ UNCHANGED <<di, state, pc, frame>>)]_vars

\* A call one try short of the ceiling has returned continue, the stream not
\* live, access revoked and the budget used up.
C14_Witness ==
    /\ last.op = "ContinueFragmentDownload"
    /\ last.line = 550
    /\ last.ret = TRUE
    /\ ~di.Finished[last.dt]
    /\ state[last.dt].Tries = FragMaxTries - 1
    /\ state[last.dt].FullRetries = 0
    /\ ~di.Live /\ di.Unavailable
    /\ state[last.dt].Is403

Max(a, b) == IF a >= b THEN a ELSE b

\* C15: while the stream stays not live, a worker that started with
\* fullRetries = n and tries at the ceiling, and whose every fetch fails, is
\* returned continue at most max(n - 1, 0) times, and is eventually stopped
\* with its data type marked finished; each call at the ceiling decrements
\* fullRetries by exactly one and nothing increases it.
C15_Drains ==
    /\ [](run # NoRun => run.continues <= Max(run.budget - 1, 0))
    /\ [][\A w \in DataTypes :
             /\ state'[w].FullRetries <= state[w].FullRetries
             /\ (ContinueFragmentDownload(w) /\ ~di.Finished[w]
                    /\ state[w].Tries >= FragMaxTries)
                => state'[w].FullRetries = state[w].FullRetries - 1]_vars
    /\ \A w \in DataTypes :
          (run # NoRun /\ w \in workers)
          ~> (run = NoRun
                \/ (di.Finished[w] /\ last.op = "ContinueFragmentDownload"
                      /\ last.ret = FALSE))

\* The worker was returned continue n - 1 times and then stopped, its budget
\* used up while it trailed the known maximum.
C15_Witness ==
    /\ run # NoRun
    /\ run.budget = MaxFullRetries
    /\ run.continues = MaxFullRetries - 1
    /\ last.op = "ContinueFragmentDownload"
    /\ last.line = 541
    /\ last.ret = FALSE
    /\ di.Finished[last.dt]
    /\ state[last.dt].FullRetries = 0
    /\ state[last.dt].SeqNum < state[last.dt].MaxSeq - 2

\* C16: in manifest mode, with both workers in RefreshURL after a failure on
\* URLs of the same generation, a worker does not call GetVideoInfo once the
\* URLs have been rotated away from the one it failed on.
C16_OneRefreshPerGeneration ==
    [][\A w \in DataTypes :
          (/\ RefreshURL(w)
           /\ workers = DataTypes
           /\ ~di.GVideoDDL
           /\ frame[w].currentUrl # EmptyUrl
           /\ GetDownloadUrl(di, w) # frame[w].currentUrl)
          => ~last'.refreshed]_vars

\* What a call that returned stop may have done to the collaborator: marked
\* the worker's data type finished, after the refresh of line 526 if it made
\* one.
StoppedInfos(w) ==
    {di} \cup { SetFinished(d, w) :
                  d \in {di} \cup (IF last'.refreshed THEN GetVideoInfo(di) ELSE {}) }

\* C17, as claimed: when ContinueFragmentDownload returns stop the worker's
\* data type is marked finished, and beside that mark and the refresh the
\* call may have made it has no effect.
C17_StopOnlyFinishes ==
    [][\A w \in DataTypes :
          (ContinueFragmentDownload(w) /\ last'.ret = FALSE)
          => (/\ di'.Finished[w]
              /\ di' \in StoppedInfos(w)
              /\ UNCHANGED <<state, pc, frame>>)]_vars

\* C17, amended: when ContinueFragmentDownload returns stop the worker's
\* data type is marked finished; beside that mark and the refresh the call
\* may have made, its only effect is the decrement of fullRetries by one when
\* tries was at the ceiling.
C17_StopIsFinished ==
    [][\A w \in DataTypes :
          (ContinueFragmentDownload(w) /\ last'.ret = FALSE)
          => (/\ di'.Finished[w]
              /\ di' \in StoppedInfos(w)
              /\ state' = [state EXCEPT ![w].FullRetries =
                              IF di.Finished[w] THEN @ ELSE @ - 1]
              /\ ~di.Finished[w] => state[w].Tries >= FragMaxTries
              /\ UNCHANGED <<pc, frame>>)]_vars

\* A stop at line 541 after the refresh of line 526 reported the stream
\* ended: the data type was not finished when the call was made.
C17_Witness ==
    /\ last.op = "ContinueFragmentDownload"
    /\ last.line = 541
    /\ last.ret = FALSE
    /\ last.refreshed
    /\ di.Finished[last.dt]
    /\ ~di.Live

(***************************************************************************)
(* Properties of the splicer.                                              *)
(***************************************************************************)
IsSidx(b) == b.tag = TagSidx
NotSidx(b) == b.tag # TagSidx

\* C10: for a well-formed sequence of boxes (with one sidx box at most),
\* RemoveSidx returns the concatenation of all boxes except the sidx box, the
\* result is shorter than the input by the sidx box's declared length, and
\* without a sidx box the result equals the input.
C10_SidxExcised ==
    (apc = "done" /\ damage = "none" /\ Len(SelectSeq(boxes, IsSidx)) <= 1)
    => (/\ newData = Concat(SelectSeq(boxes, NotSidx))
        /\ Len(newData) = Len(Fragment) - Len(Concat(SelectSeq(boxes, IsSidx))))

\* What the code does instead: every call returns its input.
RemoveSidxReturnsInput ==
    apc = "done" => (newData = Fragment /\ data = Fragment /\ atoms = NoAtomsFound)

\* The boxes without the i-th.
WithoutBox(bs, i) == SubSeq(bs, 1, i - 1) \o SubSeq(bs, i + 1, Len(bs))

\* The index of the sidx box with the smallest offset.
FirstSidx(bs) ==
    CHOOSE i \in 1 .. Len(bs) :
        IsSidx(bs[i]) /\ \A j \in 1 .. (i - 1) : NotSidx(bs[j])

\* C11: when a well-formed buffer holds more than one top-level sidx box,
\* RemoveSidx returns the buffer without the bytes of the first of them, and
\* with every later sidx box in place.
C11_FirstSidxExcised ==
    (apc = "done" /\ damage = "none" /\ Len(SelectSeq(boxes, IsSidx)) > 1)
    => newData = Concat(WithoutBox(boxes, FirstSidx(boxes)))

(***************************************************************************)
(* Properties of ParseGvideoUrl, stated on what the URL was written from.  *)
(***************************************************************************)
ParamsWithKey(in, key) == { i \in 1 .. Len(in.params) : in.params[i].key = key }

\* The itag parameter the query gives first stands for an integer.
ItagIsInteger(in) ==
    /\ ParamsWithKey(in, "itag") # {}
    /\ in.params[Min(ParamsWithKey(in, "itag"))].int >= 0

GivenItag(in) == in.params[Min(ParamsWithKey(in, "itag"))].int

\* The parameters written as "&sq=": an sq parameter that is not the first.
SqParams(in) == ParamsWithKey(in, "sq") \ {1}

AllValidationsPass(in, dataType) ==
    /\ in.path.wellFormed
    /\ in.host.streaming
    /\ ParamsWithKey(in, "noclen") # {}
    /\ ItagIsInteger(in)
    /\ dataType = DtypeAudio => GivenItag(in) = AudioItag
    /\ dataType = DtypeVideo => GivenItag(in) # AudioItag
    /\ SqParams(in) # {} \/ in.tail.marker

\* The URL up to its first "&sq=", and the placeholder.
ExpectedTemplate(in) ==
    (IF SqParams(in) # {}
     THEN UrlUpTo(in, Min(SqParams(in)) - 1)
     ELSE UrlUpTo(in, Len(in.params)) \o <<35, 116>>)
    \o SqPlaceholder

\* C12: ParseGvideoUrl returns a non-empty template exactly when the URL is
\* well-formed, its host ends with the streaming provider's suffix, a noclen
\* key is present, itag is an integer that is the audio itag for an audio
\* request and another for a video request, and the URL holds "&sq="; the
\* template is then the URL up to the first "&sq=" followed by the
\* placeholder, and the itag returned the one parsed; otherwise the template
\* is empty and the itag 0.
C12_TemplateIffValid ==
    upc = "done"
    => /\ Len(parsed.newUrl) > 0 <=> AllValidationsPass(gvInput, gvType)
       /\ parsed = IF AllValidationsPass(gvInput, gvType)
                   THEN Parsed(ExpectedTemplate(gvInput), GivenItag(gvInput))
                   ELSE NotParsed

\* A video URL was accepted, and parameters that followed its sq parameter
\* are not in the template.
C12_Witness ==
    /\ upc = "done"
    /\ gvType = DtypeVideo
    /\ parsed.itag = 137
    /\ Len(parsed.newUrl) > 0
    /\ Len(parsed.newUrl) < Len(gvUrl) - 2
    /\ Min(SqParams(gvInput)) < Len(gvInput.params)

(***************************************************************************)
(* Properties of the scan.                                                 *)
(***************************************************************************)
\* The scan comes to an end, when the loop of GetAtoms is run on.
ScanEnds == (apc = "scan") ~> (apc # "scan")

\* The iteration about to run ends the scan or adds a positive length to the
\* offset.
NextIterationAdvances ==
    \/ ofs + 8 > Len(data)
    \/ DeclaredLength(data, ofs).err
    \/ DeclaredLength(data, ofs).value > Len(data)
    \/ DeclaredLength(data, ofs).value > 0

\* C18: GetAtoms terminates on every buffer: an iteration either ends the
\* scan or moves the offset forward inside the buffer, no iteration is about
\* to leave the offset where it is, and a header whose declared length is
\* zero ends the scan and is not recorded.
C18_ScanTerminates ==
    /\ [](apc = "scan" => NextIterationAdvances)
    /\ [][GetAtoms
            => \/ apc' = "splice" /\ ofs' = ofs
               \/ apc' = "scan" /\ ofs' > ofs /\ ofs + 8 <= Len(data)]_vars
    /\ [][(GetAtoms /\ ofs + 8 <= Len(data) /\ HeaderLength(data, ofs) <= 0)
            => (apc' = "splice" /\ atoms' = atoms /\ ofs' = ofs)]_vars

\* The scan has ended at a header that declares a length of zero, with
\* nothing recorded for it.
C18_Witness ==
    /\ apc \in {"splice", "done"}
    /\ damage = "zero"
    /\ ofs + 8 <= Len(data)
    /\ HeaderLength(data, ofs) = 0
    /\ \A t \in DOMAIN atoms : atoms[t].Offset # ofs

\* C19: every atom GetAtoms records lies inside the buffer, a header whose
\* declared length exceeds the bytes that remain from its offset ends the
\* scan, and RemoveSidx does not fault.
C19_AtomsInsideBuffer ==
    /\ [](/\ \A t \in DOMAIN atoms :
                0 <= atoms[t].Offset /\ atoms[t].Offset + atoms[t].Length <= Len(data)
          /\ apc # "panic")
    /\ [][(GetAtoms /\ ofs + 8 <= Len(data)
             /\ HeaderLength(data, ofs) > Len(data) - ofs)
            => (apc' = "splice" /\ atoms' = atoms)]_vars

\* RemoveSidx has returned from a buffer whose scan ended at a header that
\* declares more bytes than remain.
C19_Witness ==
    /\ apc = "done"
    /\ damage = "oversize"
    /\ ofs + 8 <= Len(data)
    /\ HeaderLength(data, ofs) > Len(data) - ofs
    /\ newData = data

\* C20: RemoveSidx does not mutate its input: after the call the caller's
\* buffer holds the bytes it held before it, and when the buffer holds a sidx
\* box the result is a new buffer, not a slice of the caller's.
C20_InputUntouched ==
    apc = "done"
    => (/\ data = Fragment
        /\ (\E i \in 1 .. Len(boxes) : IsSidx(boxes[i])) => ~shared)

\* What the code does instead: the caller's bytes are as they were, and the
\* result is always the caller's own slice.
RemoveSidxSharesInput ==
    apc = "done" => (data = Fragment /\ shared /\ newData = data)

====
